---- MODULE Spec2Model ----
(***************************************************************************)
(* Model of streamlit_duckdb.py: one Streamlit render cycle is one run of  *)
(* the script from top to bottom.  The script opens an in-memory DuckDB    *)
(* connection, loads the titanic table from the demo data or an uploaded   *)
(* CSV, runs a fixed set of aggregation queries and closes the connection. *)
(*                                                                         *)
(* Representation.  A table is a bag of rows.  SQL NULL is the value NULL. *)
(* Ages are whole years.  A percentage ROUND(x, 2) is held in hundredths   *)
(* (6667 stands for 66.67).  VARCHAR values are compared through their     *)
(* character codes, as ORDER BY does.                                      *)
(***************************************************************************)
EXTENDS Bags, FiniteSets, Integers, Sequences, TLC

VARIABLES pc, line, source_option, uploaded_file, conn, titanic, tmp_path,
          tmpdir, views, ui, csv

vars == <<pc, line, source_option, uploaded_file, conn, titanic, tmp_path,
          tmpdir, views, ui, csv>>

----------------------------------------------------------------------------
(* Bounds of the explored inputs *)

MaxRows == 3
MaxAge == 85
MaxOrphans == 1
MaxMixedRows == 2
MaxPartialRows == 2

----------------------------------------------------------------------------
(* SQL values *)

NULL == -1

Demo == "Données Titanic de démonstration"
Upload == "Télécharger un fichier CSV"
SourceOptions == {Demo, Upload}

SexValues == {"female", "male"}
PclassValues == {1, 2, 3}
SurvivedValues == {0, 1}

(* Character codes of the VARCHAR values the queries compare. *)
Ascii ==
    ("0-9" :> <<48, 45, 57>>) @@
    ("10-19" :> <<49, 48, 45, 49, 57>>) @@
    ("20-29" :> <<50, 48, 45, 50, 57>>) @@
    ("30-39" :> <<51, 48, 45, 51, 57>>) @@
    ("40-49" :> <<52, 48, 45, 52, 57>>) @@
    ("50-59" :> <<53, 48, 45, 53, 57>>) @@
    ("60-69" :> <<54, 48, 45, 54, 57>>) @@
    ("70-79" :> <<55, 48, 45, 55, 57>>) @@
    ("80+" :> <<56, 48, 43>>) @@
    ("Inconnu" :> <<73, 110, 99, 111, 110, 110, 117>>) @@
    ("female" :> <<102, 101, 109, 97, 108, 101>>) @@
    ("male" :> <<109, 97, 108, 101>>)

RECURSIVE LexLess(_, _)
(* Binary string comparison: a sorts strictly before b. *)
LexLess(a, b) ==
    IF b = <<>> THEN FALSE
    ELSE IF a = <<>> THEN TRUE
    ELSE IF Head(a) # Head(b) THEN Head(a) < Head(b)
    ELSE LexLess(Tail(a), Tail(b))

RECURSIVE KeyLess(_, _)
(* ORDER BY c1, c2, ...: the first column that differs decides. *)
KeyLess(k1, k2) ==
    IF k1 = <<>> \/ k2 = <<>> THEN FALSE
    ELSE IF Head(k1) # Head(k2) THEN LexLess(Head(k1), Head(k2))
    ELSE KeyLess(Tail(k1), Tail(k2))

RECURSIVE OrderByDesc(_, _)
(* ORDER BY ... DESC in place of the ascending default. *)
OrderByDesc(S, key) ==
    IF S = {} THEN <<>>
    ELSE LET first == CHOOSE x \in S : \A y \in S \ {x} : ~KeyLess(key[x], key[y])
         IN  <<first>> \o OrderByDesc(S \ {first}, key)

RECURSIVE OrderBy(_, _)
(* The rows of S as a sequence in ascending order of their sort key. *)
OrderBy(S, key) ==
    IF S = {} THEN <<>>
    ELSE LET first == CHOOSE x \in S : \A y \in S \ {x} : ~KeyLess(key[y], key[x])
         IN  <<first>> \o OrderBy(S \ {first}, key)

RECURSIVE SumFn(_, _)
SumFn(f, S) ==
    IF S = {} THEN 0
    ELSE LET x == CHOOSE y \in S : TRUE
         IN  f[x] + SumFn(f, S \ {x})

(* COUNT( * ) over the rows G of table t. *)
CountStar(t, G) == SumFn([r \in G |-> CopiesIn(r, t)], G)

(* SUM(Survived): NULL when there is no row to add. *)
SumSurvived(t, G) ==
    IF G = {} THEN NULL
    ELSE SumFn([r \in G |-> r.Survived * CopiesIn(r, t)], G)

(* SUM(CASE WHEN Survived = v THEN 1 ELSE 0 END) *)
SumCase(t, G, v) ==
    IF G = {} THEN NULL
    ELSE SumFn([r \in G |-> IF r.Survived = v THEN CopiesIn(r, t) ELSE 0], G)

(* Two decimals by truncation instead of rounding. *)
Round2Trunc(p, q) == (p * 100) \div q

(* ROUND(p / q, 2) in hundredths, halves away from zero; p, q >= 0, q > 0. *)
Round2(p, q) == (2 * p * 100 + q) \div (2 * q)

(* ROUND(SUM(Survived) * 100.0 / COUNT( * ), 2); NULL propagates. *)
Pourcentage(s, n) == IF s = NULL THEN NULL ELSE Round2(s * 100, n)

(* The CASE with inclusive upper limits, Age <= 10 and so on. *)
GroupeAgeParAgeInclusive(Age) ==
    IF Age # NULL /\ Age <= 10 THEN "0-9"
    ELSE IF Age # NULL /\ Age <= 20 THEN "10-19"
    ELSE IF Age # NULL /\ Age <= 30 THEN "20-29"
    ELSE IF Age # NULL /\ Age <= 40 THEN "30-39"
    ELSE IF Age # NULL /\ Age <= 50 THEN "40-49"
    ELSE IF Age # NULL /\ Age <= 60 THEN "50-59"
    ELSE IF Age # NULL /\ Age <= 70 THEN "60-69"
    ELSE IF Age # NULL /\ Age <= 80 THEN "70-79"
    ELSE IF Age = NULL THEN "Inconnu"
    ELSE "80+"

(* CASE ... END as groupe_age of the query survivants_par_age.  A WHEN whose
   comparison is NULL is not taken. *)
GroupeAgeParAge(Age) ==
    IF Age # NULL /\ Age < 10 THEN "0-9"
    ELSE IF Age # NULL /\ Age < 20 THEN "10-19"
    ELSE IF Age # NULL /\ Age < 30 THEN "20-29"
    ELSE IF Age # NULL /\ Age < 40 THEN "30-39"
    ELSE IF Age # NULL /\ Age < 50 THEN "40-49"
    ELSE IF Age # NULL /\ Age < 60 THEN "50-59"
    ELSE IF Age # NULL /\ Age < 70 THEN "60-69"
    ELSE IF Age # NULL /\ Age < 80 THEN "70-79"
    ELSE IF Age = NULL THEN "Inconnu"
    ELSE "80+"

(* The same CASE in the query taux_survie_age. *)
GroupeAgeTaux(Age) ==
    IF Age # NULL /\ Age < 10 THEN "0-9"
    ELSE IF Age # NULL /\ Age < 20 THEN "10-19"
    ELSE IF Age # NULL /\ Age < 30 THEN "20-29"
    ELSE IF Age # NULL /\ Age < 40 THEN "30-39"
    ELSE IF Age # NULL /\ Age < 50 THEN "40-49"
    ELSE IF Age # NULL /\ Age < 60 THEN "50-59"
    ELSE IF Age # NULL /\ Age < 70 THEN "60-69"
    ELSE IF Age # NULL /\ Age < 80 THEN "70-79"
    ELSE IF Age = NULL THEN "Inconnu"
    ELSE "80+"

(* The same CASE in the query survivants_sexe_age. *)
GroupeAgeSexeAge(Age) ==
    IF Age # NULL /\ Age < 10 THEN "0-9"
    ELSE IF Age # NULL /\ Age < 20 THEN "10-19"
    ELSE IF Age # NULL /\ Age < 30 THEN "20-29"
    ELSE IF Age # NULL /\ Age < 40 THEN "30-39"
    ELSE IF Age # NULL /\ Age < 50 THEN "40-49"
    ELSE IF Age # NULL /\ Age < 60 THEN "50-59"
    ELSE IF Age # NULL /\ Age < 70 THEN "60-69"
    ELSE IF Age # NULL /\ Age < 80 THEN "70-79"
    ELSE IF Age = NULL THEN "Inconnu"
    ELSE "80+"

----------------------------------------------------------------------------
(* The queries.  t is the titanic table. *)

(* total_survivants written as COUNT(Survived). *)
StatsGeneralesCount(t) ==
    LET G == BagToSet(t)
    IN  << [total_passagers |-> CountStar(t, G),
            total_survivants |-> CountStar(t, G),
            pourcentage_survie |-> Pourcentage(SumSurvived(t, G), CountStar(t, G))] >>

(* stats_generales: an aggregate without GROUP BY returns exactly one row. *)
StatsGenerales(t) ==
    LET G == BagToSet(t)
    IN  << [total_passagers |-> CountStar(t, G),
            total_survivants |-> SumSurvived(t, G),
            pourcentage_survie |-> Pourcentage(SumSurvived(t, G), CountStar(t, G))] >>

(* nombre_deces written with the condition of nombre_survivants. *)
SurvivantsParSexeCopie(t) ==
    LET G == BagToSet(t)
        grp(k) == {r \in G : r.Sex = k}
        rows == { [Sex |-> k,
                   nombre_survivants |-> SumCase(t, grp(k), 1),
                   nombre_deces |-> SumCase(t, grp(k), 1),
                   total |-> CountStar(t, grp(k))] : k \in {r.Sex : r \in G} }
    IN  OrderBy(rows, [x \in rows |-> <<Ascii[x.Sex]>>])

SurvivantsParSexe(t) ==
    LET G == BagToSet(t)
        grp(k) == {r \in G : r.Sex = k}
        rows == { [Sex |-> k,
                   nombre_survivants |-> SumCase(t, grp(k), 1),
                   nombre_deces |-> SumCase(t, grp(k), 0),
                   total |-> CountStar(t, grp(k))] : k \in {r.Sex : r \in G} }
    IN  OrderBy(rows, [x \in rows |-> <<Ascii[x.Sex]>>])

SurvivantsParAge(t) ==
    LET G == BagToSet(t)
        grp(k) == {r \in G : GroupeAgeParAge(r.Age) = k}
        rows == { [groupe_age |-> k,
                   nombre_survivants |-> SumCase(t, grp(k), 1),
                   nombre_deces |-> SumCase(t, grp(k), 0),
                   total |-> CountStar(t, grp(k))]
                  : k \in {GroupeAgeParAge(r.Age) : r \in G} }
    IN  OrderBy(rows, [x \in rows |-> <<Ascii[x.groupe_age]>>])

(* taux_survie_sexe has no ORDER BY: its rows are a set. *)
TauxSurvieSexe(t) ==
    LET G == BagToSet(t)
        grp(k) == {r \in G : r.Sex = k}
    IN  { [Sex |-> k,
           taux_survie |-> Pourcentage(SumSurvived(t, grp(k)), CountStar(t, grp(k)))]
          : k \in {r.Sex : r \in G} }

TauxSurvieAge(t) ==
    LET G == {r \in BagToSet(t) : r.Age # NULL}
        grp(k) == {r \in G : GroupeAgeTaux(r.Age) = k}
        rows == { [groupe_age |-> k,
                   taux_survie |-> Pourcentage(SumSurvived(t, grp(k)), CountStar(t, grp(k)))]
                  : k \in {GroupeAgeTaux(r.Age) : r \in G} }
    IN  OrderBy(rows, [x \in rows |-> <<Ascii[x.groupe_age]>>])

SurvivantsSexeAge(t) ==
    LET G == BagToSet(t)
        grp(k) == {r \in G : r.Sex = k[1] /\ GroupeAgeSexeAge(r.Age) = k[2]}
        rows == { [Sex |-> k[1],
                   groupe_age |-> k[2],
                   taux_survie |-> Pourcentage(SumSurvived(t, grp(k)), CountStar(t, grp(k))),
                   total |-> CountStar(t, grp(k))]
                  : k \in {<<r.Sex, GroupeAgeSexeAge(r.Age)>> : r \in G} }
    IN  OrderBy(rows, [x \in rows |-> <<Ascii[x.Sex], Ascii[x.groupe_age]>>])

(* One row per class of a fixed list, as a join from the list of classes
   would give, whether or not a passenger travelled in it. *)
StatsClasseToutesClasses(t) ==
    LET G == BagToSet(t)
        grp(k) == {r \in G : r.Pclass = k}
        rows == { [classe |-> k,
                   total_passagers |-> CountStar(t, grp(k)),
                   total_survivants |-> SumSurvived(t, grp(k)),
                   pourcentage_survie |-> Pourcentage(SumSurvived(t, grp(k)), CountStar(t, grp(k)))]
                  : k \in PclassValues }
    IN  OrderBy(rows, [x \in rows |-> << <<x.classe>> >>])

StatsClasse(t) ==
    LET G == BagToSet(t)
        grp(k) == {r \in G : r.Pclass = k}
        rows == { [classe |-> k,
                   total_passagers |-> CountStar(t, grp(k)),
                   total_survivants |-> SumSurvived(t, grp(k)),
                   pourcentage_survie |-> Pourcentage(SumSurvived(t, grp(k)), CountStar(t, grp(k)))]
                  : k \in {r.Pclass : r \in G} }
    IN  OrderBy(rows, [x \in rows |-> << <<x.classe>> >>])

(* DataFrame filter groupe_age != 'Inconnu' *)
SansInconnu(s) == SelectSeq(s, LAMBDA x : x.groupe_age # "Inconnu")

----------------------------------------------------------------------------
(* Input data *)

Rows == [Sex : SexValues, Age : (0..MaxAge) \cup {NULL},
         Pclass : PclassValues, Survived : SurvivedValues]

RECURSIVE BagsUpTo(_, _)
(* The tables of at most n rows drawn from R. *)
BagsUpTo(R, n) ==
    IF n = 0 THEN {EmptyBag}
    ELSE LET prev == BagsUpTo(R, n - 1)
         IN  prev \cup {b (+) SetToBag({r}) : b \in prev, r \in R}

(* Tables with repeated group keys: up to MaxRows passengers. *)
CoreRows == [Sex : SexValues, Age : {25, NULL}, Pclass : PclassValues,
             Survived : SurvivedValues]

(* Tables of up to MaxMixedRows passengers whose ages cover every bucket. *)
BucketAges == {5, 15, 25, 35, 45, 55, 65, 75, 80, NULL}
MixedAgeRows == [Sex : SexValues, Age : BucketAges, Pclass : {2},
                 Survived : SurvivedValues]

(* Tables of one passenger of any age, class and outcome. *)
Relations ==
    BagsUpTo(CoreRows, MaxRows) \cup BagsUpTo(MixedAgeRows, MaxMixedRows)
        \cup {SetToBag({r}) : r \in Rows}

(* The columns the queries name. *)
ExpectedColumns == {"Sex", "Age", "Pclass", "Survived"}

(* What the script holds in uploaded_file.  columns are the expected
   columns that the table read from the file has, under any spelling of
   their case, with a type the queries accept; exact tells that the header
   spells the column Sex exactly so, the name the DataFrame lookups use. *)
Unassigned ==
    [assigned |-> FALSE, present |-> FALSE, readable |-> FALSE, columns |-> {},
     exact |-> FALSE, rows |-> EmptyBag]

(* st.sidebar.file_uploader returned None. *)
NoFile == [Unassigned EXCEPT !.assigned = TRUE]

File(readable, columns, exact, rows) ==
    [assigned |-> TRUE, present |-> TRUE, readable |-> readable, columns |-> columns,
     exact |-> exact, rows |-> rows]

(* Bytes read_csv_auto rejects. *)
Unreadable == File(FALSE, {}, FALSE, EmptyBag)

(* A CSV with every expected column and at least one passenger. *)
CsvFiles == {File(TRUE, ExpectedColumns, TRUE, b) : b \in Relations \ {EmptyBag}}

(* A CSV of the header line alone: read_csv_auto has no data row to infer a
   type from, every column is VARCHAR and SUM(Survived) does not bind. *)
HeaderOnly == File(TRUE, ExpectedColumns \ {"Survived"}, TRUE, EmptyBag)

(* A passenger row without the columns a CSV lacks. *)
Project(r, cols) == [c \in cols |-> r[c]]

(* The tables of CSVs with passengers and the columns cols. *)
SmallTables(cols) ==
    BagsUpTo({Project(r, cols) : r \in CoreRows}, MaxPartialRows) \ {EmptyBag}

(* CSVs with passengers that lack one or more of the expected columns. *)
PartialFiles ==
    UNION { {File(TRUE, cols, e, b) : b \in SmallTables(cols),
                                      e \in IF "Sex" \in cols THEN BOOLEAN ELSE {FALSE}}
            : cols \in (SUBSET ExpectedColumns) \ {ExpectedColumns} }

(* CSVs with every expected column whose header spells Sex in another case
   (sex, SEX): the queries bind, the result columns carry that spelling. *)
CaseFiles == {File(TRUE, ExpectedColumns, FALSE, b) : b \in SmallTables(ExpectedColumns)}

Files == CsvFiles \cup PartialFiles \cup CaseFiles \cup {Unreadable, HeaderOnly}

(* charger_donnees_titanic_demo: the head of the fixed remote data set. *)
DemoData ==
    SetToBag({[Sex |-> "male", Age |-> 22, Pclass |-> 3, Survived |-> 0],
              [Sex |-> "female", Age |-> 38, Pclass |-> 1, Survived |-> 1],
              [Sex |-> "female", Age |-> 26, Pclass |-> 3, Survived |-> 1],
              [Sex |-> "female", Age |-> 35, Pclass |-> 1, Survived |-> 1],
              [Sex |-> "male", Age |-> 35, Pclass |-> 3, Survived |-> 0],
              [Sex |-> "male", Age |-> NULL, Pclass |-> 3, Survived |-> 0]})

----------------------------------------------------------------------------
(* The database *)

NoTable == [exists |-> FALSE, columns |-> {}, exact |-> FALSE, rows |-> EmptyBag]

(* A database that outlives its connection, as a file or a cached
   connection would be. *)
SharedDatabase(cat) == cat

(* duckdb.connect(database=':memory:'): every connect is a new, empty
   database whatever the previous one, cat, held. *)
MemoryDatabase(cat) == NoTable

(* CREATE TABLE IF NOT EXISTS titanic AS SELECT ... *)
CreateTableIfNotExists(cat, columns, exact, rows) ==
    IF cat.exists THEN cat
    ELSE [exists |-> TRUE, columns |-> columns, exact |-> exact, rows |-> rows]

(* Lines 61-302: the views the script holds when it stands at line at, that is
   the results of the statements that end before that line, on table t. *)
ViewsAt(t, at) ==
    [computed |-> at > 287,
     stats_generales |-> IF at > 75 THEN StatsGenerales(t) ELSE <<>>,
     survivants_par_sexe |-> IF at > 95 THEN SurvivantsParSexe(t) ELSE <<>>,
     survivants_par_age |-> IF at > 119 THEN SurvivantsParAge(t) ELSE <<>>,
     taux_survie_sexe |-> IF at > 160 THEN TauxSurvieSexe(t) ELSE {},
     survivants_par_age_filtre |->
         IF at > 170 THEN SansInconnu(SurvivantsParAge(t)) ELSE <<>>,
     taux_survie_age |-> IF at > 220 THEN TauxSurvieAge(t) ELSE <<>>,
     survivants_sexe_age |-> IF at > 250 THEN SurvivantsSexeAge(t) ELSE <<>>,
     survivants_sexe_age_filtre |->
         IF at > 253 THEN SansInconnu(SurvivantsSexeAge(t)) ELSE <<>>,
     stats_classe |-> IF at > 287 THEN StatsClasse(t) ELSE <<>>]

(* Lines 61-302: what the script has rendered when it stands at line at. *)
RenderedAt(at) ==
    (IF at > 63 THEN {"preview"} ELSE {}) \cup
    (IF at > 80 THEN {"metrics"} ELSE {}) \cup
    (IF at > 151 THEN {"chart_sexe"} ELSE {}) \cup
    (IF at > 198 THEN {"chart_age"} ELSE {}) \cup
    (IF at > 272 THEN {"heatmap"} ELSE {}) \cup
    (IF at > 302 THEN {"chart_classe"} ELSE {})

(* The line after the last statement of lines 61-302. *)
AfterViews == 303

NoViews == ViewsAt(EmptyBag, 0)

(* Lines 61-302 run to their end on table t. *)
ComputeViews(t) == ViewsAt(t, AfterViews)

(* The first line of 61-302 that raises on a table with these columns, 0
   if none does: a query that names a column the table lacks (69, 86, 99,
   278), or the lookup survivants_par_sexe['Sex'] when the result column
   is spelled otherwise (131). *)
FailLine(cols, exact) ==
    IF "Survived" \notin cols THEN 69
    ELSE IF "Sex" \notin cols THEN 86
    ELSE IF "Age" \notin cols THEN 99
    ELSE IF ~exact THEN 131
    ELSE IF "Pclass" \notin cols THEN 278
    ELSE 0

(* The lines of 61-302 with an st.* call.  "metrics" stands for the three
   st.metric of lines 78-80 together, "preview" for the data frame of
   line 63. *)
StLines == {62, 63, 66, 77, 78, 79, 80, 83, 122, 125, 151, 162, 164, 167, 198,
            222, 224, 227, 272, 275, 302}

NoCsv == [offered |-> FALSE, rows |-> EmptyBag]

(* tempfile.NamedTemporaryFile: a name no existing temporary file has. *)
FreshPath(dir) == CHOOSE p \in 1..(Cardinality(dir) + 1) : p \notin dir

----------------------------------------------------------------------------
(* The render cycle.  pc is the position of the script; line is the line
   at which a run ended by an exception, its own or the one Streamlit
   raises inside an st.* call when a widget event asks for a rerun. *)

Init ==
    /\ pc = "start"
    /\ line = 0
    /\ source_option = Demo
    /\ uploaded_file = Unassigned
    /\ conn = "none"
    /\ titanic = NoTable
    /\ tmp_path = 0
    /\ tmpdir = {}
    /\ views = NoViews
    /\ ui = {}
    /\ csv = NoCsv

(* Line 30 *)
Connect ==
    /\ pc = "start"
    /\ conn' = "open"
    /\ titanic' = MemoryDatabase(titanic)
    /\ pc' = "connected"
    /\ UNCHANGED <<line, source_option, uploaded_file, tmp_path, tmpdir, views, ui, csv>>

(* Lines 33-38 *)
LoadDemo ==
    /\ pc = "connected"
    /\ source_option = Demo
    /\ titanic' = CreateTableIfNotExists(titanic, ExpectedColumns, TRUE, DemoData)
    /\ ui' = ui \cup {"success"}
    /\ pc' = "loaded"
    /\ UNCHANGED <<line, source_option, uploaded_file, conn, tmp_path, tmpdir, views, csv>>

(* Line 34, pd.read_csv(url) raises: the script ends with the exception. *)
DemoUnreachable ==
    /\ pc = "connected"
    /\ source_option = Demo
    /\ pc' = "failed"
    /\ line' = 34
    /\ UNCHANGED <<source_option, uploaded_file, conn, titanic, tmp_path, tmpdir, views, ui, csv>>

(* Lines 41-42, 57-59: no file, st.info then st.stop() ends the script. *)
NoFileStop ==
    /\ pc = "connected"
    /\ source_option = Upload
    /\ uploaded_file' = NoFile
    /\ ui' = ui \cup {"info"}
    /\ pc' = "stopped"
    /\ UNCHANGED <<line, source_option, conn, titanic, tmp_path, tmpdir, views, csv>>

(* Lines 41-46: a file was uploaded; its bytes go to a temporary file that
   is kept on disk after the with block (delete=False). *)
WriteTmp ==
    /\ pc = "connected"
    /\ source_option = Upload
    /\ \E f \in Files :
          /\ f.readable \/ Cardinality(tmpdir) < MaxOrphans
          /\ uploaded_file' = f
    /\ tmp_path' = FreshPath(tmpdir)
    /\ tmpdir' = tmpdir \cup {FreshPath(tmpdir)}
    /\ pc' = "tmp"
    /\ UNCHANGED <<line, source_option, conn, titanic, views, ui, csv>>

(* Line 49 *)
CreateTable ==
    /\ pc = "tmp"
    /\ uploaded_file.readable
    /\ tmp_path \in tmpdir
    /\ titanic' = CreateTableIfNotExists(titanic, uploaded_file.columns,
                                         uploaded_file.exact, uploaded_file.rows)
    /\ pc' = "created"
    /\ UNCHANGED <<line, source_option, uploaded_file, conn, tmp_path, tmpdir, views, ui, csv>>

(* Line 49, read_csv_auto raises: the script ends with the exception. *)
CreateTableFails ==
    /\ pc = "tmp"
    /\ ~uploaded_file.readable
    /\ pc' = "failed"
    /\ line' = 49
    /\ UNCHANGED <<source_option, uploaded_file, conn, titanic, tmp_path, tmpdir, views, ui, csv>>

(* Lines 52-56 *)
FetchAndUnlink ==
    /\ pc = "created"
    /\ ui' = ui \cup {"success"}
    /\ tmpdir' = tmpdir \ {tmp_path}
    /\ pc' = "loaded"
    /\ UNCHANGED <<line, source_option, uploaded_file, conn, titanic, tmp_path, views, csv>>

(* Lines 61-302 *)
DerivedViews ==
    /\ pc = "loaded"
    /\ FailLine(titanic.columns, titanic.exact) = 0
    /\ views' = ComputeViews(titanic.rows)
    /\ ui' = ui \cup RenderedAt(AfterViews)
    /\ pc' = "views"
    /\ UNCHANGED <<line, source_option, uploaded_file, conn, titanic, tmp_path, tmpdir, csv>>

(* Lines 61-302 when a statement raises: the script ends there with the
   exception, keeping what it had computed and rendered. *)
QueryFails ==
    /\ pc = "loaded"
    /\ FailLine(titanic.columns, titanic.exact) # 0
    /\ line' = FailLine(titanic.columns, titanic.exact)
    /\ views' = ViewsAt(titanic.rows, line')
    /\ ui' = ui \cup RenderedAt(line')
    /\ pc' = "failed"
    /\ UNCHANGED <<source_option, uploaded_file, conn, titanic, tmp_path, tmpdir, csv>>

(* Lines 306-314: st.button is True in the run its click started. *)
Export ==
    /\ pc = "views"
    /\ \E clicked \in BOOLEAN :
          /\ csv' = IF clicked THEN [offered |-> TRUE, rows |-> titanic.rows] ELSE csv
          /\ ui' = IF clicked THEN ui \cup {"button", "download"} ELSE ui \cup {"button"}
    /\ pc' = "export"
    /\ UNCHANGED <<line, source_option, uploaded_file, conn, titanic, tmp_path, tmpdir, views>>

(* Lines 317-323: the in-memory database goes with its connection. *)
Close ==
    /\ pc = "export"
    /\ conn = "open"
    /\ ui' = ui \cup {"about"}
    /\ conn' = "closed"
    /\ titanic' = NoTable
    /\ pc' = "done"
    /\ UNCHANGED <<line, source_option, uploaded_file, tmp_path, tmpdir, views, csv>>

(* A widget event during a run: Streamlit raises its rerun exception inside
   the next st.* call, before that call shows anything, and the run ends
   there.  The actions below are the places where that call can be. *)

(* The st.* calls of lines 10-24, before the connection is opened. *)
InterruptStart ==
    /\ pc = "start"
    /\ pc' = "interrupted"
    /\ line' \in {10, 13, 14, 23, 24}
    /\ UNCHANGED <<source_option, uploaded_file, conn, titanic, tmp_path, tmpdir, views, ui, csv>>

(* Line 35 with the demo source, line 41 in file_uploader, line 58 in
   st.info after file_uploader returned None. *)
InterruptLoad ==
    /\ pc = "connected"
    /\ \/ source_option = Demo /\ line' = 35 /\ UNCHANGED uploaded_file
       \/ source_option = Upload /\ line' = 41 /\ UNCHANGED uploaded_file
       \/ source_option = Upload /\ line' = 58 /\ uploaded_file' = NoFile
    /\ pc' = "interrupted"
    /\ UNCHANGED <<source_option, conn, titanic, tmp_path, tmpdir, views, ui, csv>>

(* Line 53, after the table is created and before os.unlink. *)
InterruptIngest ==
    /\ pc = "created"
    /\ Cardinality(tmpdir \ {tmp_path}) < MaxOrphans
    /\ pc' = "interrupted"
    /\ line' = 53
    /\ UNCHANGED <<source_option, uploaded_file, conn, titanic, tmp_path, tmpdir, views, ui, csv>>

(* An st.* call of lines 61-302 that the script reaches: one before the
   line that raises, if any, and for the st.write of the loops of lines
   163-164 and 223-224 one whose view has a row to iterate on. *)
InterruptViews ==
    /\ pc = "loaded"
    /\ \E l \in StLines :
          /\ FailLine(titanic.columns, titanic.exact) = 0
                \/ l < FailLine(titanic.columns, titanic.exact)
          /\ l = 164 => TauxSurvieSexe(titanic.rows) # {}
          /\ l = 224 => TauxSurvieAge(titanic.rows) # <<>>
          /\ line' = l
    /\ views' = ViewsAt(titanic.rows, line')
    /\ ui' = ui \cup RenderedAt(line')
    /\ pc' = "interrupted"
    /\ UNCHANGED <<source_option, uploaded_file, conn, titanic, tmp_path, tmpdir, csv>>

(* Line 306, line 307 in st.button, or line 309 in st.download_button
   after the click and to_csv. *)
InterruptExport ==
    /\ pc = "views"
    /\ \/ line' \in {306, 307} /\ UNCHANGED <<csv, ui>>
       \/ /\ line' = 309
          /\ csv' = [offered |-> FALSE, rows |-> titanic.rows]
          /\ ui' = ui \cup {"button"}
    /\ pc' = "interrupted"
    /\ UNCHANGED <<source_option, uploaded_file, conn, titanic, tmp_path, tmpdir, views>>

(* Line 317, line 319 in st.sidebar.info, or line 320 after it:
   conn.close() is not run. *)
InterruptClose ==
    /\ pc = "export"
    /\ \/ line' \in {317, 319} /\ UNCHANGED ui
       \/ line' = 320 /\ ui' = ui \cup {"about"}
    /\ pc' = "interrupted"
    /\ UNCHANGED <<source_option, uploaded_file, conn, titanic, tmp_path, tmpdir, views, csv>>

(* The next run starts from the top with fresh script variables; the radio
   holds the user's choice. *)
Rerun ==
    /\ pc \in {"done", "stopped", "failed", "interrupted"}
    /\ \E s \in SourceOptions : source_option' = s
    /\ uploaded_file' = Unassigned
    /\ conn' = "none"
    /\ tmp_path' = 0
    /\ views' = NoViews
    /\ ui' = {}
    /\ csv' = NoCsv
    /\ line' = 0
    /\ pc' = "start"
    /\ UNCHANGED <<titanic, tmpdir>>

Next ==
    \/ Connect
    \/ LoadDemo
    \/ DemoUnreachable
    \/ NoFileStop
    \/ WriteTmp
    \/ CreateTable
    \/ CreateTableFails
    \/ FetchAndUnlink
    \/ DerivedViews
    \/ QueryFails
    \/ Export
    \/ Close
    \/ InterruptStart
    \/ InterruptLoad
    \/ InterruptIngest
    \/ InterruptViews
    \/ InterruptExport
    \/ InterruptClose
    \/ Rerun

Spec == Init /\ [][Next]_vars

----------------------------------------------------------------------------
(* Vocabulary of the properties, independent of the queries *)

(* The script has run its queries and the connection is still open. *)
Queried == pc \in {"views", "export"}

(* The script has run its queries, or those before the line where the run
   ended, and the table is still there. *)
QueriedOrFailed == pc \in {"views", "export", "failed", "interrupted"}

(* Number of raw rows of table t among the distinct rows G. *)
NbRows(t, G) == BagCardinality([r \in G |-> t[r]])

(* Number of raw rows among G with Survived = v. *)
NbSurvived(t, G, v) == NbRows(t, {r \in G : r.Survived = v})

DecadeLabels == <<"0-9", "10-19", "20-29", "30-39", "40-49", "50-59", "60-69", "70-79">>

(* The bucket whose interval contains age a. *)
BucketOf(a) ==
    IF a = NULL THEN "Inconnu"
    ELSE IF a >= 80 THEN "80+"
    ELSE DecadeLabels[(a \div 10) + 1]

(* Position of a bucket in the canonical order. *)
Rank ==
    ("0-9" :> 0) @@ ("10-19" :> 1) @@ ("20-29" :> 2) @@ ("30-39" :> 3) @@
    ("40-49" :> 4) @@ ("50-59" :> 5) @@ ("60-69" :> 6) @@ ("70-79" :> 7) @@
    ("80+" :> 8) @@ ("Inconnu" :> 9)

(* rate, in hundredths, is 100 * s / n rounded to two decimals. *)
IsRate(rate, s, n) ==
    /\ n > 0
    /\ 0 <= rate /\ rate <= 10000
    /\ 2 * (rate * n - 10000 * s) <= n
    /\ 2 * (10000 * s - rate * n) <= n

RowsOf(view) == {view[i] : i \in DOMAIN view}

----------------------------------------------------------------------------
(* C1: for a non-empty table whose Survived values are 0 or 1, every row of
   the by-sex and by-age-bucket count views has nombre_survivants +
   nombre_deces = total, and total is the number of raw rows of the group. *)
SurvivorsPlusDeathsIsTotal ==
    LET t == titanic.rows
        G == BagToSet(t)
    IN  (Queried /\ G # {} /\ \A r \in G : r.Survived \in {0, 1}) =>
          /\ \A x \in RowsOf(views.survivants_par_sexe) :
                /\ x.nombre_survivants + x.nombre_deces = x.total
                /\ x.total = NbRows(t, {r \in G : r.Sex = x.Sex})
          /\ \A x \in RowsOf(views.survivants_par_age) :
                /\ x.nombre_survivants + x.nombre_deces = x.total
                /\ x.total = NbRows(t, {r \in G : BucketOf(r.Age) = x.groupe_age})

(* A sex group and an age group that each hold a survivor and a death. *)
WitnessC1 ==
    /\ pc = "views"
    /\ \E x \in RowsOf(views.survivants_par_sexe) :
          x.nombre_survivants >= 1 /\ x.nombre_deces >= 1
    /\ \E x \in RowsOf(views.survivants_par_age) :
          x.nombre_survivants >= 1 /\ x.nombre_deces >= 2

(* C2: in every rate-bearing view (global, rate by sex, cross-tab, by class)
   every reported rate lies in 0..100 and is 100 * survivors / total of its
   group rounded to two decimals; so are the rates of a cycle that ended
   at a later line. *)
RateIsRoundedShare ==
    LET t == titanic.rows
        G == BagToSet(t)
    IN  QueriedOrFailed =>
          /\ \A x \in RowsOf(views.stats_generales) :
                IsRate(x.pourcentage_survie, NbSurvived(t, G, 1), NbRows(t, G))
          /\ \A x \in views.taux_survie_sexe :
                LET Gx == {r \in G : r.Sex = x.Sex}
                IN  IsRate(x.taux_survie, NbSurvived(t, Gx, 1), NbRows(t, Gx))
          /\ \A x \in RowsOf(views.survivants_sexe_age) :
                LET Gx == {r \in G : r.Sex = x.Sex /\ BucketOf(r.Age) = x.groupe_age}
                IN  IsRate(x.taux_survie, NbSurvived(t, Gx, 1), NbRows(t, Gx))
          /\ \A x \in RowsOf(views.stats_classe) :
                LET Gx == {r \in G : r.Pclass = x.classe}
                IN  IsRate(x.pourcentage_survie, NbSurvived(t, Gx, 1), NbRows(t, Gx))

(* Three passengers of one class: two of three survived, one of two men. *)
WitnessC2 ==
    /\ pc = "views"
    /\ views.stats_generales[1].pourcentage_survie = 6667
    /\ \E x \in views.taux_survie_sexe : x.Sex = "male" /\ x.taux_survie = 5000
    /\ \E x \in RowsOf(views.stats_classe) : x.pourcentage_survie = 6667

(* C3: every row gets exactly the label of the interval that holds its Age,
   '80+' from 80 on and 'Inconnu' exactly for a null Age, by the CASE of each
   of the three queries; the groups of the views are the groups of these
   labels. *)
AgeBucketsPartition ==
    LET t == titanic.rows
        G == BagToSet(t)
    IN  Queried =>
          /\ \A r \in G :
                /\ GroupeAgeParAge(r.Age) = BucketOf(r.Age)
                /\ GroupeAgeTaux(r.Age) = BucketOf(r.Age)
                /\ GroupeAgeSexeAge(r.Age) = BucketOf(r.Age)
                /\ Cardinality({x \in RowsOf(views.survivants_par_age) :
                                   x.groupe_age = BucketOf(r.Age)}) = 1
                /\ Cardinality({x \in RowsOf(views.survivants_sexe_age) :
                                   x.Sex = r.Sex /\ x.groupe_age = BucketOf(r.Age)}) = 1
          /\ \A x \in RowsOf(views.survivants_par_age) :
                x.total = NbRows(t, {r \in G : BucketOf(r.Age) = x.groupe_age})
          /\ \A x \in RowsOf(views.survivants_sexe_age) :
                x.total = NbRows(t, {r \in G : r.Sex = x.Sex /\ BucketOf(r.Age) = x.groupe_age})
          /\ {x.groupe_age : x \in RowsOf(views.taux_survie_age)}
                = {BucketOf(r.Age) : r \in {q \in G : q.Age # NULL}}

(* A passenger of exactly 80 next to one of unknown age. *)
WitnessC3 ==
    /\ pc = "views"
    /\ \E r \in BagToSet(titanic.rows) : r.Age = 80
    /\ \E r \in BagToSet(titanic.rows) : r.Age = NULL
    /\ {x.groupe_age : x \in RowsOf(views.survivants_par_age)} = {"80+", "Inconnu"}

(* C4: total_passagers of the global view is the sum of total over the
   by-sex rows, and total_survivants the sum of nombre_survivants. *)
GlobalIsSumOverSexes ==
    LET bySex == views.survivants_par_sexe
    IN  Queried =>
          \A x \in RowsOf(views.stats_generales) :
             /\ x.total_passagers = SumFn([i \in DOMAIN bySex |-> bySex[i].total], DOMAIN bySex)
             /\ x.total_survivants =
                   SumFn([i \in DOMAIN bySex |-> bySex[i].nombre_survivants], DOMAIN bySex)

(* Both sexes present, two survivors among three passengers. *)
WitnessC4 ==
    /\ pc = "views"
    /\ Len(views.survivants_par_sexe) = 2
    /\ views.stats_generales[1].total_passagers = 3
    /\ views.stats_generales[1].total_survivants = 2

(* C5: once an upload cycle is past ingestion, or has ended in any way, the
   temporary file it created no longer exists. *)
TmpFileDeleted ==
    (tmp_path # 0 /\ pc \in {"loaded", "views", "export", "done", "stopped", "failed",
                             "interrupted"})
        => tmp_path \notin tmpdir

(* C6: in every state, whatever table was loaded, an empty one included,
   every output row of every derived view stands for a group of at least
   one raw row, so no rate was computed with a total of 0. *)
OnlyRealizedGroups ==
        /\ \A x \in RowsOf(views.stats_generales) : x.total_passagers >= 1
        /\ \A x \in RowsOf(views.survivants_par_sexe) : x.total >= 1
        /\ \A x \in RowsOf(views.survivants_par_age) : x.total >= 1
        /\ \A x \in RowsOf(views.survivants_sexe_age) : x.total >= 1
        /\ \A x \in RowsOf(views.stats_classe) : x.total_passagers >= 1
        /\ \A x \in RowsOf(views.stats_generales) \cup RowsOf(views.stats_classe) :
              x.pourcentage_survie # NULL
        /\ \A x \in views.taux_survie_sexe \cup RowsOf(views.taux_survie_age)
                    \cup RowsOf(views.survivants_sexe_age) : x.taux_survie # NULL

(* A CSV without a passenger was loaded: the table is empty and the cycle
   ended at the first query, before any metric, with no view row. *)
WitnessC6 ==
    /\ pc = "failed"
    /\ uploaded_file.present /\ uploaded_file.readable
    /\ titanic.exists /\ titanic.rows = EmptyBag
    /\ views = NoViews
    /\ "metrics" \notin ui

(* C7: with the upload source and no file (file_uploader returned None),
   the cycle shows the prompt and halts: nothing but the prompt is
   rendered, no view is computed, no export is offered, and the script did
   not end with an exception. *)
NoFileHalts ==
    (source_option = Upload /\ uploaded_file = NoFile)
        => /\ pc = "stopped"
           /\ ui = {"info"}
           /\ views = NoViews
           /\ csv = NoCsv

(* C8: the rows of the by-age-bucket view, and of the cross-tab view within
   each sex, come in the canonical order of the buckets, 'Inconnu' last. *)
CanonicalBucketOrder ==
    LET byAge == views.survivants_par_age
        cross == views.survivants_sexe_age
    IN  Queried =>
          /\ \A i, j \in DOMAIN byAge :
                i < j => Rank[byAge[i].groupe_age] < Rank[byAge[j].groupe_age]
          /\ \A i, j \in DOMAIN cross :
                (i < j /\ cross[i].Sex = cross[j].Sex)
                    => Rank[cross[i].groupe_age] < Rank[cross[j].groupe_age]

(* Two buckets whose labels differ in length, in one sex. *)
WitnessC8 ==
    /\ pc = "views"
    /\ Len(views.survivants_par_age) = 2
    /\ views.survivants_par_age[1].groupe_age = "10-19"
    /\ views.survivants_par_age[2].groupe_age = "80+"
    /\ Len(views.survivants_sexe_age) = 2
    /\ views.survivants_sexe_age[1].Sex = views.survivants_sexe_age[2].Sex

(* The rows of the source chosen in this cycle. *)
ChosenRows == IF source_option = Demo THEN DemoData ELSE uploaded_file.rows

(* C9: in every cycle the table the views and the export read holds exactly
   the rows of the source chosen in that cycle, and neither the queries nor
   the export change it. *)
TableIsChosenSource ==
    /\ []((pc \in {"loaded", "views", "export"} \/ (pc = "interrupted" /\ line >= 62)) =>
            (/\ titanic.exists
             /\ titanic.rows = ChosenRows
             /\ (csv # NoCsv => csv.rows = ChosenRows)))
    /\ [][(pc \in {"loaded", "views"}) => (titanic' = titanic)]_vars

(* An upload cycle, which only follows a demo cycle, exports rows that are
   not the demo rows. *)
WitnessC9 ==
    /\ pc = "export"
    /\ source_option = Upload
    /\ csv.offered
    /\ csv.rows # EmptyBag
    /\ csv.rows # DemoData

(* C10: at the end of a cycle that opened the connection, on the demo
   path, the upload path and the path that halts without a file, the
   connection has been closed. *)
ConnectionClosedAtEnd ==
    pc \in {"done", "stopped"} => conn = "closed"

====
